---- MODULE Spec2Model ----
(***************************************************************************)
(* Model of the INFICON Spot SPI driver (inficon_spot.cpp).                *)
(*                                                                         *)
(* One InficonSpot handle, one caller.  Every statement of the driver      *)
(* that touches the SPI bus or the chip-select line is one step, so that   *)
(* the states between the statements are visible.  The program counter     *)
(* values are the source line numbers of the statement to execute next.    *)
(***************************************************************************)
EXTENDS Integers, Sequences, FiniteSets

VARIABLES
    _ss_pin,      \* InficonSpot::_ss_pin
    _rdy_pin,     \* InficonSpot::_rdy_pin
    _spi_freq,    \* InficonSpot::_spi_freq
    _fullscale,   \* InficonSpot::_fullscale (a float, see Fin/Inf/NaN)
    hw,           \* SPI peripheral and the two lines, as the HAL sees them
    pc,           \* "idle", or the line of the statement to execute next
    fr,           \* arguments and locals of the call in progress / last call
    trace,        \* HAL calls made by the call in progress / last call
    result,       \* value returned by the last completed call
    prevWrite,    \* the call completed just before this one, if a writeRegister
    lastSet       \* history: argument of the last setFullscale call, 0.0 if none

vars == <<_ss_pin, _rdy_pin, _spi_freq, _fullscale, hw, pc, fr, trace, result, prevWrite, lastSet>>

handle == <<_ss_pin, _rdy_pin, _spi_freq, _fullscale>>

----------------------------------------------------------------------------
(* Bounds of the model *)

\* longest span of the directly called readMemory / writeMemory / readOTP
MaxLen == 2

----------------------------------------------------------------------------
(* Bit arithmetic on naturals, bit by bit *)

RECURSIVE BitAnd(_, _)
BitAnd(a, b) ==
    IF a = 0 \/ b = 0 THEN 0
    ELSE (IF a % 2 = 1 /\ b % 2 = 1 THEN 1 ELSE 0) + 2 * BitAnd(a \div 2, b \div 2)

RECURSIVE BitOr(_, _)
BitOr(a, b) ==
    IF a = 0 THEN b
    ELSE IF b = 0 THEN a
    ELSE (IF a % 2 = 1 \/ b % 2 = 1 THEN 1 ELSE 0) + 2 * BitOr(a \div 2, b \div 2)

RECURSIVE Pow2(_)
Pow2(n) == IF n = 0 THEN 1 ELSE 2 * Pow2(n - 1)

Shr(a, n) == a \div Pow2(n)

\* conversion of an int to uint8_t
Byte(a) == a % 256

(* uint32_t: two 16 bit halves (TLC's integers are 32 bit signed) *)
U32(hi, lo) == [hi |-> hi, lo |-> lo]

U32OfByte(b) == U32(0, b)

U32Shl(u, n) ==
    IF n >= 16
    THEN U32((u.lo * Pow2(n - 16)) % 65536, 0)
    ELSE U32(((u.hi * Pow2(n)) % 65536) + ((u.lo * Pow2(n)) \div 65536),
             (u.lo * Pow2(n)) % 65536)

U32Shr(u, n) ==
    IF n >= 16
    THEN U32(0, u.hi \div Pow2(n - 16))
    ELSE U32(u.hi \div Pow2(n),
             (u.lo \div Pow2(n)) + (u.hi % Pow2(n)) * Pow2(16 - n))

U32Or(u, v) == U32(BitOr(u.hi, v.hi), BitOr(u.lo, v.lo))

\* (u & mask) for a mask below 2^16, as an int
U32AndLow(u, mask) == BitAnd(u.lo, mask)

\* *((int32_t *) &result): the same 32 bits read as a two's complement int
AsInt32(u) ==
    IF u.hi >= 32768 THEN (u.hi - 65536) * 65536 + u.lo
    ELSE u.hi * 65536 + u.lo

----------------------------------------------------------------------------
(* float: a finite value is m * 2^e with m odd (or m = 0, e = 0) and       *)
(* |m| < 2^24; the exponent range is never left by the values used here    *)
(* and the sign of zero is not kept.                                       *)

Fin(m, e) == [m |-> m, e |-> e, cls |-> "fin"]
Inf(sign) == [m |-> sign, e |-> 0, cls |-> "inf"]
NaN       == [m |-> 0, e |-> 0, cls |-> "nan"]

RECURSIVE NormFin(_, _)
NormFin(m, e) ==
    IF m = 0 THEN Fin(0, 0)
    ELSE IF m % 2 = 0 THEN NormFin(m \div 2, e + 1)
    ELSE Fin(m, e)

Abs(n) == IF n < 0 THEN 0 - n ELSE n
Sign(n) == IF n < 0 THEN 0 - 1 ELSE 1

\* number of bits by which a exceeds a 24 bit significand
RECURSIVE Excess(_)
Excess(a) == IF a < 16777216 THEN 0 ELSE 1 + Excess(a \div 2)

\* m * 2^e rounded to the nearest float, ties to even
RoundFin(m, e) ==
    IF m = (0 - 2147483647) - 1 THEN NormFin(m, e)
    ELSE LET a == Abs(m)
             k == Excess(a)
             q == a \div Pow2(k)
             r == a % Pow2(k)
             up == k > 0 /\ (2 * r > Pow2(k) \/ (2 * r = Pow2(k) /\ q % 2 = 1))
         IN  NormFin(Sign(m) * (q + (IF up THEN 1 ELSE 0)), e + k)

\* (float) n for an int32_t n
FloatOfInt(n) == RoundFin(n, 0)

\* a / b for a power of two b (an exact scaling of a finite a)
FDivPow2(a, b) ==
    IF a.cls = "fin" THEN NormFin(a.m, a.e - b.e) ELSE a

FMul(a, b) ==
    IF a.cls = "nan" \/ b.cls = "nan" THEN NaN
    ELSE IF a.cls = "inf" \/ b.cls = "inf"
         THEN IF (a.cls = "fin" /\ a.m = 0) \/ (b.cls = "fin" /\ b.m = 0)
              THEN NaN
              ELSE Inf(Sign(a.m) * Sign(b.m))
    ELSE RoundFin(a.m * b.m, a.e + b.e)

\* the literal 2097152.0f
F2097152 == Fin(1, 21)

----------------------------------------------------------------------------
(* The driver's pure computations *)

\* the scale divisor of both conversions
ScaleDivisor == F2097152

\* C arrays are indexed from 0
At(buf, k) == buf[k + 1]

\* address + i of the memory loops (uint16_t + int).  Only bits 0..12 of the
\* sum are used, so a 16 bit and a 32 bit int give the same bytes.
AddrPlus(address, i) == address + i

\* buf[] of readRegister before the transfer
ReadRegisterBuf(reg) == <<Byte(BitOr(reg, 64)), 0, 0, 0>>

\* variant: the three bytes assembled least significant first
ReadRegisterResult_LittleEndian(buf) ==
    U32Or(U32Or(U32Shl(U32OfByte(At(buf, 3)), 16),
                U32Shl(U32OfByte(At(buf, 2)), 8)),
          U32OfByte(At(buf, 1)))

\* result of readRegister from buf[] after the transfer
ReadRegisterResult(buf) ==
    U32Or(U32Or(U32Shl(U32OfByte(At(buf, 1)), 16),
                U32Shl(U32OfByte(At(buf, 2)), 8)),
          U32OfByte(At(buf, 3)))

\* variant: the value's bytes sent least significant first
WriteRegisterBuf_LsbFirst(reg, data) ==
    << Byte(BitOr(reg, 192)),
       U32AndLow(U32Shr(data, 0), 255),
       U32AndLow(U32Shr(data, 8), 255),
       U32AndLow(U32Shr(data, 16), 255) >>

\* buf[] of writeRegister before the transfer
WriteRegisterBuf(reg, data) ==
    << Byte(BitOr(reg, 192)),
       U32AndLow(U32Shr(data, 16), 255),
       U32AndLow(U32Shr(data, 8), 255),
       U32AndLow(U32Shr(data, 0), 255) >>

\* variant: the high address bits masked with 0x0f as for main memory
ReadOTPBuf_Mask0F(address, i) ==
    << Byte(BitOr(32, BitAnd(Shr(AddrPlus(address, i), 8), 15))),
       Byte(BitAnd(AddrPlus(address, i), 255)),
       0 >>

\* buf[] of the i-th transaction of readOTP
ReadOTPBuf(address, i) ==
    << Byte(BitOr(32, BitAnd(Shr(AddrPlus(address, i), 8), 31))),
       Byte(BitAnd(AddrPlus(address, i), 255)),
       0 >>

\* variant: the address byte not advanced with i
ReadMemoryBuf_NoIncrement(address, i) ==
    << Byte(BitOr(16, BitAnd(Shr(AddrPlus(address, i), 8), 15))),
       Byte(BitAnd(address, 255)),
       0 >>

\* buf[] of the i-th transaction of readMemory
ReadMemoryBuf(address, i) ==
    << Byte(BitOr(16, BitAnd(Shr(AddrPlus(address, i), 8), 15))),
       Byte(BitAnd(AddrPlus(address, i), 255)),
       0 >>

\* variant: the high address bits not masked
WriteMemoryBuf_NoMask(address, i, data) ==
    << Byte(BitOr(144, Shr(AddrPlus(address, i), 8))),
       Byte(BitAnd(AddrPlus(address, i), 255)),
       At(data, i) >>

\* buf[] of the i-th transaction of writeMemory
WriteMemoryBuf(address, i, data) ==
    << Byte(BitOr(144, BitAnd(Shr(AddrPlus(address, i), 8), 15))),
       Byte(BitAnd(AddrPlus(address, i), 255)),
       At(data, i) >>

\* size of the buffer s of readLabel
LabelBufSize == 32

\* the clamped length of readLabel
ClampLength(length) == IF length > 32 THEN 32 ELSE length

\* the scan of readLabel over the first length bytes of s
IsZeroTerminated(s, length) == \E i \in 0 .. length - 1 : At(s, i) = 0

\* String(s): the bytes before the first zero byte.  Without a zero byte in s
\* the constructor reads past the array; <<-1>> stands for that outcome.
CString(s) ==
    IF \E j \in 1 .. Len(s) : s[j] = 0
    THEN LET k == CHOOSE j \in 1 .. Len(s) :
                      s[j] = 0 /\ \A h \in 1 .. j - 1 : s[h] # 0
         IN  SubSeq(s, 1, k - 1)
    ELSE << 0 - 1 >>

\* variant: no fallback for a label without terminator
LabelString_NoFallback(s, length) == CString(s)

\* the tail of readLabel: scan, fallback, String(s)
LabelString(s, length) ==
    CString(IF IsZeroTerminated(s, length) THEN s ELSE [s EXCEPT ![1] = 0])

\* variant: the four bytes assembled most significant first
CrcValue_BigEndian(crcbuf) ==
    U32Or(U32Or(U32Or(U32Shl(U32OfByte(At(crcbuf, 0)), 24),
                      U32Shl(U32OfByte(At(crcbuf, 1)), 16)),
                U32Shl(U32OfByte(At(crcbuf, 2)), 8)),
          U32OfByte(At(crcbuf, 3)))

\* the return expression of readSramCrc and readOtpCrc
CrcValue(crcbuf) ==
    U32Or(U32Or(U32Or(U32Shl(U32OfByte(At(crcbuf, 3)), 24),
                      U32Shl(U32OfByte(At(crcbuf, 2)), 16)),
                U32Shl(U32OfByte(At(crcbuf, 1)), 8)),
          U32OfByte(At(crcbuf, 0)))

\* convertPressure(result, fullscale); the one-argument overload passes
\* _fullscale
ConvertPressure(res, fullscale) ==
    FMul(FDivPow2(FloatOfInt(AsInt32(res)), ScaleDivisor), fullscale)

ConvertTemperature(res) ==
    FMul(FDivPow2(FloatOfInt(AsInt32(res)), ScaleDivisor), FloatOfInt(25))

----------------------------------------------------------------------------
(* Inputs *)

\* constructor arguments other than the defaults
CtorArgs == { <<9, 6, 1000000>> }

\* arguments of setFullscale and of the two-argument convertPressure:
\* 0.0, 1.0, 100.0, -1.5, +infinity, NaN
FullscaleSamples == { Fin(0, 0), Fin(1, 0), Fin(25, 2), Fin(0 - 3, 0 - 1), Inf(1), NaN }

\* arguments of setFullscale: 100.0, +infinity
StoredSamples == { Fin(25, 2), Inf(1) }

\* uint16_t start addresses, around the ends of both regions
AddrSamples == { 0, 255, 4095, 4096, 8191, 65535 }

\* the addresses ADDR_* of inficon_spot.h, which the source file only names:
\* any of these
HeaderAddrs == { 0, 4094 }

\* int length of the directly called memory operations
Lengths == (0 - 1) .. MaxLen

\* byte length of readLabel
LabelLengths == { 0, 1, 16, 32, 33, 255 }

\* bytes written by writeMemory
DataBytes == { 0, 165 }

\* byte reg of the register operations
RegSamples == { 0, 63, 64, 255 }

\* uint8_t cmd of sendCommand
CmdSamples == { 0, 255 }

\* uint32_t data of writeRegister: 0, 0x123456, 0xFFFFFF, 0xAB123456
WriteSamples == { U32(0, 0), U32(18, 13398), U32(255, 65535), U32(43794, 13398) }

\* uint32_t result of the conversions:
\* 0, 0x100000, 0x200000, 0x800000, 0xE00000, 0xFFFFFF, 0xAB123456, 0xFFE00000
ValSamples ==
    { U32(0, 0), U32(16, 0), U32(32, 0), U32(128, 0), U32(224, 0), U32(255, 65535),
      U32(43794, 13398), U32(65504, 0) }

\* the three data-phase bytes a device may return to readRegister
ReplySamples == { <<0, 0, 0>>, <<1, 2, 3>>, <<224, 0, 128>>, <<255, 255, 255>> }

\* what the bytes of an uninitialised buffer may hold: all g
GarbageBytes == { 0, 90 }

Garbage(n, g) == [ j \in 1 .. n |-> g ]

(* Content of the device memory as the reads of one call see it: the byte  *)
(* returned by the i-th transaction is zero for i in z and nonzero         *)
(* elsewhere; the bytes clocked in during the opcode and address phase     *)
(* are fill.                                                               *)
Dev(z, fill) == [z |-> z, fill |-> fill]

DevByte(dev, i) == IF i \in dev.z THEN 0 ELSE 1 + ((dev.fill + 7 * i) % 255)

DevReply(dev, i) == << dev.fill, dev.fill, DevByte(dev, i) >>

\* memories read by the label accessors
AccessorDevs == { Dev({}, 65), Dev({1, 3}, 65) }

\* memories read by readLabel: no zero byte, or zero bytes at the places z
LabelDevs == { Dev(z, 65) : z \in { {}, {0}, {1, 3}, {15}, {31}, {32} } }

\* memories read by the other operations
DevSamples == { Dev({0}, 65), Dev({1}, 200), Dev({}, 254) }

RECURSIVE SeqsOf(_, _)
SeqsOf(S, n) ==
    IF n <= 0 THEN { <<>> }
    ELSE { Append(q, x) : q \in SeqsOf(S, n - 1), x \in S }

----------------------------------------------------------------------------
(* State *)

Void == <<>>

NoWrite == [reg |-> 0, some |-> FALSE, val |-> U32(0, 0), tx |-> <<>>]

Frame(op) ==
    [ buf |-> <<>>, address |-> 0, i |-> 0, reg |-> 0, data |-> <<>>, length |-> 0,
      dev |-> Dev({}, 0), val |-> U32(0, 0), op |-> op, arg |-> 0, fs |-> Fin(0, 0) ]

\* one HAL call, with the state of the bus and of chip-select when it is made
Ev(e, arg, tx, rx) ==
    [ e |-> e, tx |-> tx, arg |-> arg, rx |-> rx, ss |-> hw.ss, claimed |-> hw.claimed ]

\* InficonSpot::InficonSpot(), InficonSpot::InficonSpot(ss_pin, rdy_pin, spi_freq);
\* the chip-select output latch holds either level until begin() sets it
Init ==
    /\ \/ /\ _ss_pin = 10
          /\ _rdy_pin = 7
          /\ _spi_freq = 4000000
       \/ \E a \in CtorArgs :
             /\ _ss_pin = a[1]
             /\ _rdy_pin = a[2]
             /\ _spi_freq = a[3]
    /\ _fullscale = Fin(0, 0)
    /\ \E lvl \in { "LOW", "HIGH" } :
          hw = [ ss |-> lvl, claimed |-> FALSE, spi |-> FALSE,
                 ssMode |-> "INPUT", rdyMode |-> "INPUT" ]
    /\ pc = "idle"
    /\ fr = Frame("none")
    /\ trace = <<>>
    /\ result = Void
    /\ prevWrite = NoWrite
    /\ lastSet = Fin(0, 0)

----------------------------------------------------------------------------
(* HAL calls *)

SPI_beginTransaction(next) ==
    /\ hw' = [hw EXCEPT !.claimed = TRUE]
    /\ trace' = Append(trace, Ev("claim", _spi_freq, <<>>, <<>>))
    /\ pc' = next
    /\ UNCHANGED <<handle, fr, result, prevWrite, lastSet>>

SPI_endTransaction(next) ==
    /\ hw' = [hw EXCEPT !.claimed = FALSE]
    /\ trace' = Append(trace, Ev("release", 0, <<>>, <<>>))
    /\ pc' = next
    /\ UNCHANGED <<handle, fr, result, prevWrite, lastSet>>

digitalWrite_ss(level, next) ==
    /\ hw' = [hw EXCEPT !.ss = level]
    /\ trace' = Append(trace, Ev(IF level = "LOW" THEN "low" ELSE "high", _ss_pin, <<>>, <<>>))
    /\ pc' = next
    /\ UNCHANGED <<handle, fr, result, prevWrite, lastSet>>

\* SPI.transfer(buf, n): the received bytes rx replace the sent ones
SPI_transfer(rx, next) ==
    /\ fr' = [fr EXCEPT !.buf = rx]
    /\ trace' = Append(trace, Ev("xfer", 0, fr.buf, rx))
    /\ pc' = next
    /\ UNCHANGED <<handle, hw, result, prevWrite, lastSet>>

\* entry of a public member function with arguments and locals f
Call(f, next) ==
    /\ pc = "idle"
    /\ fr' = f
    /\ trace' = <<>>
    /\ pc' = next
    /\ UNCHANGED <<_ss_pin, _rdy_pin, _spi_freq>>

\* entry of a member function that uses the bus; the caller has run begin()
\* before (the SPI library is used only after SPI.begin())
Enter(f, next) ==
    /\ hw.spi
    /\ Call(f, next)
    /\ result' = Void
    /\ prevWrite' = NoWrite
    /\ UNCHANGED <<_fullscale, hw, lastSet>>

\* return of the public member function with value v
Return(v) ==
    /\ pc' = "idle"
    /\ result' = v
    /\ UNCHANGED <<handle, hw, fr, trace, prevWrite, lastSet>>

----------------------------------------------------------------------------
(* begin, sendCommand, resetSensor, isDataAvailable *)

begin ==
    /\ Call(Frame("begin"), "idle")
    /\ hw' = [hw EXCEPT !.spi = TRUE, !.ss = "HIGH", !.ssMode = "OUTPUT",
                        !.rdyMode = "INPUT_PULLUP"]
    /\ result' = Void
    /\ prevWrite' = NoWrite
    /\ UNCHANGED <<_fullscale, lastSet>>

resetSensor ==
    Enter([Frame("resetSensor") EXCEPT !.buf = <<136>>], "L63")

sendCommand ==
    \E cmd \in CmdSamples :
        Enter([Frame("sendCommand") EXCEPT !.buf = <<cmd>>], "L63")

sendCommand_63 == pc = "L63" /\ SPI_beginTransaction("L64")
sendCommand_64 == pc = "L64" /\ digitalWrite_ss("LOW", "L65")
sendCommand_65 == pc = "L65" /\ \E rx \in { 0, 255 } : SPI_transfer(<<rx>>, "L66")
sendCommand_66 == pc = "L66" /\ digitalWrite_ss("HIGH", "L67")
sendCommand_67 == pc = "L67" /\ SPI_endTransaction("idle")

isDataAvailable ==
    \E level \in { "LOW", "HIGH" } :
        /\ Call(Frame("isDataAvailable"), "idle")
        /\ result' = (level = "LOW")
        /\ prevWrite' = NoWrite
        /\ UNCHANGED <<_fullscale, hw, lastSet>>

----------------------------------------------------------------------------
(* readRegister, writeRegister *)

\* the call before this one, if it was a writeRegister: its arguments and the
\* bytes it sent
LastWrite ==
    IF fr.op = "writeRegister"
    THEN [reg |-> fr.reg, some |-> TRUE, val |-> fr.val, tx |-> trace[3].tx]
    ELSE NoWrite

readRegister ==
    \E reg \in RegSamples :
        /\ hw.spi
        /\ Call([Frame("readRegister") EXCEPT !.reg = reg, !.buf = ReadRegisterBuf(reg)], "L89")
        /\ result' = Void
        /\ prevWrite' = LastWrite
        /\ UNCHANGED <<_fullscale, hw, lastSet>>

readRegister_89 == pc = "L89" /\ SPI_beginTransaction("L91")
readRegister_91 == pc = "L91" /\ digitalWrite_ss("LOW", "L93")

\* the device answers with any three data bytes, among them those of the
\* preceding writeRegister
readRegister_93 ==
    /\ pc = "L93"
    /\ \E r \in ReplySamples \cup (IF prevWrite.some THEN { SubSeq(prevWrite.tx, 2, 4) } ELSE {}) :
          SPI_transfer(<<255>> \o r, "L95")

readRegister_95 == pc = "L95" /\ digitalWrite_ss("HIGH", "L96")
readRegister_96 == pc = "L96" /\ SPI_endTransaction("L99")
readRegister_99 == pc = "L99" /\ Return(ReadRegisterResult(fr.buf))

writeRegister ==
    \E reg \in RegSamples, data \in WriteSamples :
        Enter([Frame("writeRegister") EXCEPT !.reg = reg, !.val = data,
                                              !.buf = WriteRegisterBuf(reg, data)], "L115")

writeRegister_115 == pc = "L115" /\ SPI_beginTransaction("L116")
writeRegister_116 == pc = "L116" /\ digitalWrite_ss("LOW", "L117")
writeRegister_117 == pc = "L117" /\ SPI_transfer(<<255, 255, 255, 255>>, "L118")
\* variant: chip-select left low
writeRegister_118_NoDeselect ==
    /\ pc = "L118"
    /\ pc' = "L119"
    /\ UNCHANGED <<handle, hw, fr, trace, result, prevWrite, lastSet>>

writeRegister_118 == pc = "L118" /\ digitalWrite_ss("HIGH", "L119")
writeRegister_119 == pc = "L119" /\ SPI_endTransaction("idle")

----------------------------------------------------------------------------
(* readOTP, readMemory, writeMemory *)

OutBuffer(length, g) == Garbage(IF length < 0 THEN 0 ELSE length, g)

readOTP ==
    \E address \in AddrSamples, length \in Lengths, dev \in DevSamples, g \in { 90 } :
        Enter([Frame("readOTP") EXCEPT !.address = address, !.length = length,
                                       !.data = OutBuffer(length, g), !.dev = dev], "L129")

readOTP_129 == pc = "L129" /\ SPI_beginTransaction("L131")

readOTP_131 ==
    /\ pc = "L131"
    /\ IF fr.i < fr.length
       THEN /\ fr' = [fr EXCEPT !.buf = ReadOTPBuf(fr.address, fr.i)]
            /\ pc' = "L136"
       ELSE /\ fr' = fr
            /\ pc' = "L143"
    /\ UNCHANGED <<handle, hw, trace, result, prevWrite, lastSet>>

readOTP_136 == pc = "L136" /\ digitalWrite_ss("LOW", "L137")
readOTP_137 == pc = "L137" /\ SPI_transfer(DevReply(fr.dev, fr.i), "L138")
readOTP_138 == pc = "L138" /\ digitalWrite_ss("HIGH", "L140")

readOTP_140 ==
    /\ pc = "L140"
    /\ fr' = [fr EXCEPT !.data[fr.i + 1] = At(fr.buf, 2), !.i = fr.i + 1]
    /\ pc' = "L131"
    /\ UNCHANGED <<handle, hw, trace, result, prevWrite, lastSet>>

readOTP_143 ==
    /\ pc = "L143"
    /\ SPI_endTransaction(IF fr.op = "readOtpCrc" THEN "L273" ELSE "idle")

readMemory ==
    \E address \in AddrSamples, length \in Lengths, dev \in DevSamples, g \in { 90 } :
        Enter([Frame("readMemory") EXCEPT !.address = address, !.length = length,
                                          !.data = OutBuffer(length, g), !.dev = dev], "L153")

readMemory_153 == pc = "L153" /\ SPI_beginTransaction("L155")

readMemory_155 ==
    /\ pc = "L155"
    /\ IF fr.i < fr.length
       THEN /\ fr' = [fr EXCEPT !.buf = ReadMemoryBuf(fr.address, fr.i)]
            /\ pc' = "L160"
       ELSE /\ fr' = fr
            /\ pc' = "L167"
    /\ UNCHANGED <<handle, hw, trace, result, prevWrite, lastSet>>

readMemory_160 == pc = "L160" /\ digitalWrite_ss("LOW", "L161")
readMemory_161 == pc = "L161" /\ SPI_transfer(DevReply(fr.dev, fr.i), "L162")
readMemory_162 == pc = "L162" /\ digitalWrite_ss("HIGH", "L164")

readMemory_164 ==
    /\ pc = "L164"
    /\ fr' = [fr EXCEPT !.data[fr.i + 1] = At(fr.buf, 2), !.i = fr.i + 1]
    /\ pc' = "L155"
    /\ UNCHANGED <<handle, hw, trace, result, prevWrite, lastSet>>

readMemory_167 ==
    /\ pc = "L167"
    /\ SPI_endTransaction(IF fr.op = "readMemory" THEN "idle"
                          ELSE IF fr.op = "readSramCrc" THEN "L262"
                          ELSE "L208")

writeMemory ==
    \E address \in AddrSamples, length \in Lengths :
        \E data \in SeqsOf(DataBytes, length) :
            Enter([Frame("writeMemory") EXCEPT !.address = address, !.length = length,
                                               !.data = data, !.dev = Dev({}, 255)], "L177")

writeMemory_177 == pc = "L177" /\ SPI_beginTransaction("L179")

writeMemory_179 ==
    /\ pc = "L179"
    /\ IF fr.i < fr.length
       THEN /\ fr' = [fr EXCEPT !.buf = WriteMemoryBuf(fr.address, fr.i, fr.data)]
            /\ pc' = "L184"
       ELSE /\ fr' = fr
            /\ pc' = "L189"
    /\ UNCHANGED <<handle, hw, trace, result, prevWrite, lastSet>>

writeMemory_184 == pc = "L184" /\ digitalWrite_ss("LOW", "L185")
writeMemory_185 == pc = "L185" /\ SPI_transfer(DevReply(fr.dev, fr.i), "L186")
writeMemory_186 == pc = "L186" /\ digitalWrite_ss("HIGH", "L187")

writeMemory_187 ==
    /\ pc = "L187"
    /\ fr' = [fr EXCEPT !.i = fr.i + 1]
    /\ pc' = "L179"
    /\ UNCHANGED <<handle, hw, trace, result, prevWrite, lastSet>>

writeMemory_189 == pc = "L189" /\ SPI_endTransaction("idle")

----------------------------------------------------------------------------
(* readLabel and the label accessors *)

\* body of readLabel up to the call of readMemory; op names the public entry
LabelCall(op, address, length, devs, G) ==
    \E dev \in devs, g \in G :
        Enter([Frame(op) EXCEPT !.address = address, !.arg = length,
                                !.length = ClampLength(length),
                                !.data = Garbage(LabelBufSize, g), !.dev = dev], "L153")

readLabel ==
    \E address \in HeaderAddrs, length \in LabelLengths :
        LabelCall("readLabel", address, length, LabelDevs, GarbageBytes)

readLabel_208 == pc = "L208" /\ Return(LabelString(fr.data, fr.length))

readProductNo  == \E address \in HeaderAddrs : LabelCall("readProductNo", address, 32, AccessorDevs, { 90 })
readSerialNo   == \E address \in HeaderAddrs : LabelCall("readSerialNo", address, 32, AccessorDevs, { 90 })
readFullscale1 == \E address \in HeaderAddrs : LabelCall("readFullscale1", address, 16, AccessorDevs, { 90 })
readFullscale2 == \E address \in HeaderAddrs : LabelCall("readFullscale2", address, 16, AccessorDevs, { 90 })
readType       == \E address \in HeaderAddrs : LabelCall("readType", address, 16, AccessorDevs, { 90 })
readSpeed      == \E address \in HeaderAddrs : LabelCall("readSpeed", address, 16, AccessorDevs, { 90 })

LabelOps ==
    { "readLabel", "readProductNo", "readSerialNo", "readFullscale1", "readFullscale2",
      "readType", "readSpeed" }

----------------------------------------------------------------------------
(* readSramCrc, readOtpCrc *)

readSramCrc ==
    \E address \in HeaderAddrs, dev \in DevSamples, g \in { 90 } :
        Enter([Frame("readSramCrc") EXCEPT !.address = address, !.length = 4,
                                           !.data = Garbage(4, g), !.dev = dev], "L153")

readSramCrc_262 == pc = "L262" /\ Return(CrcValue(fr.data))

readOtpCrc ==
    \E address \in HeaderAddrs, dev \in DevSamples, g \in { 90 } :
        Enter([Frame("readOtpCrc") EXCEPT !.address = address, !.length = 4,
                                          !.data = Garbage(4, g), !.dev = dev], "L129")

readOtpCrc_273 == pc = "L273" /\ Return(CrcValue(fr.data))

----------------------------------------------------------------------------
(* setFullscale and the conversions *)

\* variant: the argument is not stored
setFullscale_NotStored ==
    \E fullscale \in StoredSamples :
        /\ Call([Frame("setFullscale") EXCEPT !.fs = fullscale], "idle")
        /\ lastSet' = fullscale
        /\ result' = Void
        /\ prevWrite' = NoWrite
        /\ UNCHANGED <<_fullscale, hw>>

setFullscale ==
    \E fullscale \in StoredSamples :
        /\ Call([Frame("setFullscale") EXCEPT !.fs = fullscale], "idle")
        /\ _fullscale' = fullscale
        /\ lastSet' = fullscale
        /\ result' = Void
        /\ prevWrite' = NoWrite
        /\ UNCHANGED hw

\* convertPressure(uint32_t result)
convertPressure_293 ==
    \E res \in ValSamples :
        /\ Call([Frame("convertPressure") EXCEPT !.val = res], "idle")
        /\ result' = ConvertPressure(res, _fullscale)
        /\ prevWrite' = NoWrite
        /\ UNCHANGED <<_fullscale, hw, lastSet>>

\* convertPressure(uint32_t result, float fullscale)
convertPressure_299 ==
    \E res \in ValSamples, fullscale \in FullscaleSamples :
        /\ Call([Frame("convertPressure2") EXCEPT !.val = res, !.fs = fullscale], "idle")
        /\ result' = ConvertPressure(res, fullscale)
        /\ prevWrite' = NoWrite
        /\ UNCHANGED <<_fullscale, hw, lastSet>>

convertTemperature ==
    \E res \in ValSamples :
        /\ Call([Frame("convertTemperature") EXCEPT !.val = res], "idle")
        /\ result' = ConvertTemperature(res)
        /\ prevWrite' = NoWrite
        /\ UNCHANGED <<_fullscale, hw, lastSet>>

----------------------------------------------------------------------------

Next ==
    \/ begin
    \/ resetSensor
    \/ sendCommand
    \/ sendCommand_63
    \/ sendCommand_64
    \/ sendCommand_65
    \/ sendCommand_66
    \/ sendCommand_67
    \/ isDataAvailable
    \/ readRegister
    \/ readRegister_89
    \/ readRegister_91
    \/ readRegister_93
    \/ readRegister_95
    \/ readRegister_96
    \/ readRegister_99
    \/ writeRegister
    \/ writeRegister_115
    \/ writeRegister_116
    \/ writeRegister_117
    \/ writeRegister_118
    \/ writeRegister_119
    \/ readOTP
    \/ readOTP_129
    \/ readOTP_131
    \/ readOTP_136
    \/ readOTP_137
    \/ readOTP_138
    \/ readOTP_140
    \/ readOTP_143
    \/ readMemory
    \/ readMemory_153
    \/ readMemory_155
    \/ readMemory_160
    \/ readMemory_161
    \/ readMemory_162
    \/ readMemory_164
    \/ readMemory_167
    \/ writeMemory
    \/ writeMemory_177
    \/ writeMemory_179
    \/ writeMemory_184
    \/ writeMemory_185
    \/ writeMemory_186
    \/ writeMemory_187
    \/ writeMemory_189
    \/ readLabel
    \/ readLabel_208
    \/ readProductNo
    \/ readSerialNo
    \/ readFullscale1
    \/ readFullscale2
    \/ readType
    \/ readSpeed
    \/ readSramCrc
    \/ readSramCrc_262
    \/ readOtpCrc
    \/ readOtpCrc_273
    \/ setFullscale
    \/ convertPressure_293
    \/ convertPressure_299
    \/ convertTemperature

Spec == Init /\ [][Next]_vars

----------------------------------------------------------------------------
(* Reading the record of HAL calls *)

Xfers == SelectSeq(trace, LAMBDA ev : ev.e = "xfer")

Kinds == [ j \in 1 .. Len(trace) |-> trace[j].e ]

RECURSIVE Pulses(_)
Pulses(n) == IF n <= 0 THEN <<>> ELSE <<"low", "xfer", "high">> \o Pulses(n - 1)

\* one bus claim around n chip-select pulses of one transfer each
Framed(n) == <<"claim">> \o Pulses(n) \o <<"release">>

Done(ops) == pc = "idle" /\ fr.op \in ops

MainReadOps == LabelOps \cup { "readMemory", "readSramCrc" }
OtpReadOps == { "readOTP", "readOtpCrc" }

\* a 24 bit value read as two's complement
Signed24(n) == IF n >= 8388608 THEN n - 16777216 ELSE n

----------------------------------------------------------------------------
(* C1: convertPressure (both overloads) and convertTemperature sign-extend *)
(* the 24 bit raw value from bit 23: for raw in [0, 2^24) the result is    *)
(* Signed24(raw) / 2^21 times the full scale (times 25 for temperature),   *)
(* so convertPressure(0xE00000, 1.0) is -1.0 and                           *)
(* convertTemperature(0x200000) is 25.0.                                   *)
C1_SignExtendFromBit23 ==
    (Done({ "convertPressure", "convertPressure2", "convertTemperature" }) /\ fr.val.hi < 256)
    => LET signed == Signed24(fr.val.hi * 65536 + fr.val.lo)
           scale == IF fr.op = "convertPressure" THEN _fullscale
                    ELSE IF fr.op = "convertPressure2" THEN fr.fs
                    ELSE Fin(25, 0)
       IN  /\ result = FMul(NormFin(signed, 0 - 21), scale)
           /\ (fr.op = "convertPressure2" /\ fr.val = U32(224, 0) /\ fr.fs = Fin(1, 0))
                 => result = Fin(0 - 1, 0)
           /\ (fr.op = "convertTemperature" /\ fr.val = U32(32, 0)) => result = Fin(25, 0)

----------------------------------------------------------------------------
(* C2: a readRegister(r) that directly follows writeRegister(r, v), with r *)
(* in [0,63] and v below 2^24, against a device that returns in bytes 1..3 *)
(* the bytes 1..3 it received in the write, returns v; and whatever the    *)
(* device returns, the value returned by readRegister is below 2^24.       *)
Echoed == prevWrite.some /\ SubSeq(Xfers[1].rx, 2, 4) = SubSeq(prevWrite.tx, 2, 4)

C2_RegisterRoundTrip ==
    Done({ "readRegister" })
    => /\ result.hi < 256
       /\ result.lo < 65536
       /\ (Echoed /\ prevWrite.reg = fr.reg /\ fr.reg <= 63 /\ prevWrite.val.hi < 256)
             => result = prevWrite.val

C2_Witness ==
    /\ Done({ "readRegister" })
    /\ Echoed
    /\ prevWrite.reg = fr.reg
    /\ fr.reg = 63
    /\ prevWrite.val = U32(18, 13398)
    /\ result = U32(18, 13398)

----------------------------------------------------------------------------
(* C3: a completed readMemory, writeMemory or readOTP of length N >= 0 at  *)
(* address A has claimed the bus once, then made N chip-select pulses of   *)
(* one transfer each, the i-th carrying the address byte (A+i) & 0xFF and, *)
(* for reads, storing the received third byte in data[i], for writes       *)
(* sending data[i] as third byte, and has then released the bus once.      *)
C3_OneClaimNPulses ==
    (Done({ "readMemory", "writeMemory", "readOTP" }) /\ fr.length >= 0)
    => /\ Kinds = Framed(fr.length)
       /\ Len(fr.data) = fr.length
       /\ \A i \in 0 .. fr.length - 1 :
             LET ev == trace[3 * i + 3]
             IN  /\ ev.tx[2] = (fr.address + i) % 256
                 /\ IF fr.op = "writeMemory"
                    THEN ev.tx[3] = fr.data[i + 1]
                    ELSE fr.data[i + 1] = ev.rx[3]

C3_Witness ==
    /\ Done({ "readMemory" })
    /\ fr.length = MaxLen
    /\ fr.address = 255
    /\ Kinds = Framed(MaxLen)
    /\ fr.data[1] = 0
    /\ fr.data[2] # 0

----------------------------------------------------------------------------
(* C4: readLabel(address, length) reads exactly L = min(length, 32) bytes  *)
(* through the main-memory read path; if none of them is zero the result   *)
(* is the empty string, and if the first zero among them is at position k  *)
(* the result is the bytes at positions [0, k).                            *)
LabelByte(i) == trace[3 * i + 3].rx[3]

C4_ReadLabel ==
    Done({ "readLabel" })
    => LET L == IF fr.arg < 32 THEN fr.arg ELSE 32
           zeros == { i \in 0 .. L - 1 : LabelByte(i) = 0 }
       IN  /\ Kinds = Framed(L)
           /\ \A i \in 0 .. L - 1 : trace[3 * i + 3].tx[1] \in 16 .. 31
           /\ zeros = {} => result = <<>>
           /\ \A k \in zeros :
                 (\A h \in zeros : k <= h)
                    => result = [ j \in 1 .. k |-> LabelByte(j - 1) ]

C4_Witness ==
    /\ Done({ "readLabel" })
    /\ fr.arg = 255
    /\ Len(result) = 15
    /\ LabelByte(15) = 0

C4_WitnessEmpty ==
    /\ Done({ "readLabel" })
    /\ fr.arg = 16
    /\ \A i \in 0 .. 15 : LabelByte(i) # 0
    /\ result = <<>>

----------------------------------------------------------------------------
(* C5: for an address A inside the region (0..0xFFF main memory,           *)
(* 0..0x1FFF OTP) the three bytes sent are 0x10 | (A>>8), A & 0xFF, 0 for  *)
(* readMemory, 0x90 | (A>>8), A & 0xFF, data for writeMemory and           *)
(* 0x20 | (A>>8), A & 0xFF, 0 for readOTP.                                 *)
C5_MemoryOpcodes ==
    \A j \in 1 .. Len(Xfers) :
        LET A == fr.address + (j - 1)
            tx == Xfers[j].tx
        IN  /\ (fr.op = "readMemory" /\ A <= 4095)
                  => tx = << 16 + (A \div 256), A % 256, 0 >>
            /\ (fr.op = "writeMemory" /\ A <= 4095)
                  => tx = << 144 + (A \div 256), A % 256, fr.data[j] >>
            /\ (fr.op = "readOTP" /\ A <= 8191)
                  => tx = << 32 + (A \div 256), A % 256, 0 >>

C5_Witness ==
    /\ fr.op = "readOTP"
    /\ fr.address = 8191
    /\ Len(Xfers) = 1
    /\ Xfers[1].tx = << 63, 255, 0 >>

C5_WitnessWrite ==
    /\ fr.op = "writeMemory"
    /\ fr.address = 4095
    /\ Len(Xfers) = 1
    /\ Xfers[1].tx = << 159, 255, 165 >>

----------------------------------------------------------------------------
(* C6: for reg in [0,63] readRegister sends reg | 0x40 and three zero      *)
(* bytes, writeRegister sends reg | 0xC0 and the three bytes of the value, *)
(* most significant first; so a readRegister never sends an opcode with    *)
(* top bits 11 and a writeRegister never one with top bits 01.             *)
(* resetSensor sends the single byte 0x88.                                 *)
C6_RegisterOpcodes ==
    \A j \in 1 .. Len(Xfers) :
        LET tx == Xfers[j].tx
        IN  /\ (fr.op = "readRegister" /\ fr.reg <= 63)
                  => /\ tx = << fr.reg + 64, 0, 0, 0 >>
                     /\ tx[1] \div 64 = 1
            /\ (fr.op = "writeRegister" /\ fr.reg <= 63)
                  => /\ tx = << fr.reg + 192, fr.val.hi % 256, fr.val.lo \div 256,
                                fr.val.lo % 256 >>
                     /\ tx[1] \div 64 = 3
            /\ fr.op = "resetSensor" => (j = 1 /\ tx = << 136 >>)

C6_Witness ==
    /\ Done({ "writeRegister" })
    /\ fr.reg = 63
    /\ Len(Xfers) = 1
    /\ Xfers[1].tx = << 255, 18, 52, 86 >>

C6_WitnessReset ==
    /\ Done({ "resetSensor" })
    /\ Len(Xfers) = 1
    /\ Xfers[1].tx = << 136 >>

----------------------------------------------------------------------------
(* C7: readSramCrc (main-memory read path) and readOtpCrc (OTP read path)  *)
(* read 4 consecutive bytes b0..b3 and return b3<<24 | b2<<16 | b1<<8 | b0.*)
C7_CrcLittleEndian ==
    Done({ "readSramCrc", "readOtpCrc" })
    => LET b(i) == trace[3 * i + 3].rx[3]
       IN  /\ Kinds = Framed(4)
           /\ \A i \in 0 .. 3 :
                 LET tx == trace[3 * i + 3].tx
                 IN  /\ tx[2] = (fr.address + i) % 256
                     /\ tx[1] \in (IF fr.op = "readSramCrc" THEN 16 .. 31 ELSE 32 .. 63)
           /\ result = U32(b(3) * 256 + b(2), b(1) * 256 + b(0))

C7_Witness ==
    /\ Done({ "readSramCrc" })
    /\ trace[12].rx[3] >= 128
    /\ result.hi >= 32768
    /\ result.lo % 256 = trace[3].rx[3]

C7_WitnessOtp ==
    /\ Done({ "readOtpCrc" })
    /\ trace[3].rx[3] = 0
    /\ result.lo % 256 = 0
    /\ result.hi # 0

----------------------------------------------------------------------------
(* C8: the one-argument convertPressure(raw) returns what                  *)
(* convertPressure(raw, f) returns for f the argument of the most recent   *)
(* setFullscale, or 0 if there was none; only setFullscale changes the     *)
(* stored value; with 100.0 stored convertPressure(0x100000) is 50.0.      *)
C8_StoredFullscale ==
    /\ _fullscale = lastSet
    /\ Done({ "convertPressure" })
          => /\ result = ConvertPressure(fr.val, lastSet)
             /\ (lastSet = Fin(25, 2) /\ fr.val = U32(16, 0)) => result = Fin(25, 1)

\* C8 as stated: the stored full scale is used as above, and
\* convertPressure(0, X) is 0 for any X
C8_ZeroForAnyX ==
    /\ C8_StoredFullscale
    /\ (Done({ "convertPressure2" }) /\ fr.val = U32(0, 0))
          => result = Fin(0, 0)

\* C8 for finite X: the stored full scale is used as above, and
\* convertPressure(0, X) is 0 for any finite X (0 * infinity and 0 * NaN are NaN)
C8_ZeroForFiniteX ==
    /\ C8_StoredFullscale
    /\ (Done({ "convertPressure2" }) /\ fr.val = U32(0, 0) /\ fr.fs.cls = "fin")
          => result = Fin(0, 0)

C8_Witness ==
    /\ Done({ "convertPressure" })
    /\ lastSet = Fin(25, 2)
    /\ fr.val = U32(16, 0)
    /\ result = Fin(25, 1)

----------------------------------------------------------------------------
(* C9: once begin() has run, chip-select is low only while the bus is      *)
(* claimed, bytes are transferred only while chip-select is low, each      *)
(* chip-select pulse holds exactly one transfer (1 byte for sendCommand    *)
(* and resetSensor, 4 for the register operations, 3 for the memory        *)
(* operations and those built on them), the bus is never claimed while     *)
(* claimed, every operation returns with chip-select high and the bus      *)
(* released, and isDataAvailable, setFullscale and the conversions make no *)
(* bus claim and no transfer.                                              *)
XferLen ==
    IF fr.op \in { "sendCommand", "resetSensor" } THEN 1
    ELSE IF fr.op \in { "readRegister", "writeRegister" } THEN 4
    ELSE 3

NoBusOps ==
    { "isDataAvailable", "setFullscale", "convertPressure", "convertPressure2",
      "convertTemperature" }

C9_ChipSelectFraming ==
    hw.spi
    => /\ hw.ss = "LOW" => hw.claimed
       /\ pc = "idle" => (hw.ss = "HIGH" /\ ~hw.claimed)
       /\ fr.op \in NoBusOps => trace = <<>>
       /\ \A j \in 1 .. Len(trace) :
             LET ev == trace[j]
             IN  /\ ev.e = "claim" => (~ev.claimed /\ j = 1)
                 /\ ev.e = "low" => (ev.claimed /\ ev.ss = "HIGH")
                 /\ ev.e = "xfer"
                       => /\ ev.ss = "LOW"
                          /\ ev.claimed
                          /\ Len(ev.tx) = XferLen
                          /\ Len(ev.rx) = XferLen
                          /\ trace[j - 1].e = "low"
                 /\ ev.e = "high" => trace[j - 1].e = "xfer"
                 /\ ev.e = "release" => (ev.ss = "HIGH" /\ j = Len(trace))
                 /\ (ev.e = "low" /\ j < Len(trace)) => trace[j + 1].e = "xfer"
                 /\ (ev.e = "xfer" /\ j < Len(trace)) => trace[j + 1].e = "high"
       /\ (pc = "idle" /\ trace # <<>>) => trace[Len(trace)].e = "release"

C9_Witness ==
    /\ hw.spi
    /\ Done({ "readSerialNo" })
    /\ Len(Xfers) = 32
    /\ hw.ss = "HIGH"
    /\ ~hw.claimed

C9_WitnessLow ==
    /\ hw.spi
    /\ fr.op = "sendCommand"
    /\ hw.ss = "LOW"
    /\ hw.claimed
    /\ Len(Xfers) = 1

----------------------------------------------------------------------------
(* C10: for every 16 bit start address and every length, each opcode sent  *)
(* by readMemory lies in [0x10,0x1F], by writeMemory in [0x90,0x9F] and by *)
(* readOTP in [0x20,0x3F]; addresses past the region wrap modulo 4096      *)
(* (main memory) or 8192 (OTP), so the transaction for address A is the    *)
(* one for A mod 4096 (A mod 8192).                                        *)
C10_OpcodeClassContainment ==
    \A j \in 1 .. Len(Xfers) :
        LET A == fr.address + (j - 1)
            tx == Xfers[j].tx
        IN  /\ fr.op \in MainReadOps
                  => /\ tx[1] \in 16 .. 31
                     /\ tx = << 16 + ((A % 4096) \div 256), (A % 4096) % 256, 0 >>
            /\ fr.op = "writeMemory"
                  => /\ tx[1] \in 144 .. 159
                     /\ tx = << 144 + ((A % 4096) \div 256), (A % 4096) % 256, fr.data[j] >>
            /\ fr.op \in OtpReadOps
                  => /\ tx[1] \in 32 .. 63
                     /\ tx = << 32 + ((A % 8192) \div 256), (A % 8192) % 256, 0 >>

C10_Witness ==
    /\ Done({ "readMemory" })
    /\ fr.address = 4095
    /\ Len(Xfers) = 2
    /\ Xfers[1].tx = << 31, 255, 0 >>
    /\ Xfers[2].tx = << 16, 0, 0 >>

C10_WitnessOtp ==
    /\ Done({ "readOTP" })
    /\ fr.address = 65535
    /\ Len(Xfers) = 2
    /\ Xfers[1].tx = << 63, 255, 0 >>
    /\ Xfers[2].tx = << 32, 0, 0 >>

====
